---- MODULE Spec2Model ----
(***************************************************************************)
(* apollo-opencensus: the GraphQL extension that opens one tracing span    *)
(* per request and one per resolved field, keeps the field spans in a      *)
(* path-indexed registry attached to the request context, and ends each    *)
(* span from the finish callback it returns to the host.                   *)
(*                                                                         *)
(* src/src/context.ts  buildPath, isSpanContext, addContextHelpers,        *)
(*                     getSpanByPath, addSpan                              *)
(* src/src/index.ts    getFieldName, OpencensusExtension.requestDidStart,  *)
(*                     OpencensusExtension.willResolveField                *)
(*                                                                         *)
(* One extension instance serves one request (the integration builds the   *)
(* extension from a factory, once per request).  The host is whatever      *)
(* drives the two entry points: it visits a field after that field's       *)
(* parent field was visited, and invokes each finish callback it was       *)
(* handed at most once, in any order.                                      *)
(***************************************************************************)
EXTENDS Integers, Sequences, FiniteSets, TLC

\* Number of elements in every list the resolvers return.
MaxElems == 2

\* "no span": null / undefined where the code expects a Span.
NoSpan == 0

(***************************************************************************)
(* ResponsePath: a chain of steps, each holding a key that is a field name *)
(* (a string) or a list index (a number).  A path is written root first;   *)
(* path.prev is the path without its last step, and the empty sequence is  *)
(* the absent (undefined) path.                                            *)
(***************************************************************************)
Field(name) == [type |-> "string", str |-> name, num |-> 0]
Index(i) == [type |-> "number", str |-> "", num |-> i]
\* A step whose key is absent (undefined).
Undefined == [type |-> "undefined", str |-> "", num |-> 0]

Key(path) == path[Len(path)]
Prev(path) == SubSeq(path, 1, Len(path) - 1)

\* typeof path.key === "number"
isArrayPath(path) == Key(path).type = "number"

\* One segment of buildPath: `[${key}]` for an index, the key itself otherwise
\* (an undefined key is pushed as it is, and join renders undefined as the
\* empty string).
Segment(path) ==
    IF isArrayPath(path)
    THEN "[" \o ToString(Key(path).num) \o "]"
    ELSE Key(path).str

\* (mutant) the loop passes over the index steps
RECURSIVE SegmentsFieldsOnly(_)
SegmentsFieldsOnly(path) ==
    IF path = <<>> THEN <<>>
    ELSE IF isArrayPath(path) THEN SegmentsFieldsOnly(Prev(path))
    ELSE <<Segment(path)>> \o SegmentsFieldsOnly(Prev(path))

\* The while loop of buildPath: the segments from the leaf up to the root.
RECURSIVE Segments(_)
Segments(path) ==
    IF path = <<>> THEN <<>>
    ELSE <<Segment(path)>> \o Segments(Prev(path))

\* Array.prototype.reverse
Reverse(s) == [i \in 1..Len(s) |-> s[Len(s) + 1 - i]]

\* Array.prototype.join
RECURSIVE Join(_, _)
Join(segs, sep) ==
    IF Len(segs) = 0 THEN ""
    ELSE IF Len(segs) = 1 THEN segs[1]
    ELSE segs[1] \o sep \o Join(Tail(segs), sep)

buildPath(path) == Join(Reverse(Segments(path)), ".")

(***************************************************************************)
(* The request context and its registry.  A context is the host's object:  *)
(* helpers says whether getSpanByPath and addSpan were attached to it, and *)
(* registry is the Map stored under the SPANS symbol (path key -> span).   *)
(***************************************************************************)
EmptyMap == [k \in {} |-> NoSpan]
PlainContext == [helpers |-> FALSE, registry |-> EmptyMap]

isSpanContext(obj) == obj.helpers

\* (mutant) the helpers and a new Map are attached on every call
addContextHelpersAgain(obj) == [helpers |-> TRUE, registry |-> EmptyMap]

addContextHelpers(obj) ==
    IF isSpanContext(obj) THEN obj
    ELSE [helpers |-> TRUE, registry |-> EmptyMap]

\* Map.prototype.get, undefined (NoSpan) for a missing key
MapGet(map, key) == IF key \in DOMAIN map THEN map[key] ELSE NoSpan

\* (mutant) the map is replaced by one that holds the new entry only
MapSetAlone(map, key, value) == [k \in {key} |-> value]

\* Map.prototype.set
MapSet(map, key, value) ==
    [k \in DOMAIN map \cup {key} |-> IF k = key THEN value ELSE map[k]]

\* (mutant) the span is stored under the key of the parent step
addSpanParentKey(obj, span, info) ==
    [obj EXCEPT !.registry = MapSet(obj.registry, buildPath(Prev(info.path)), span)]

\* (mutant) the lookup uses the path's own key even for an index step
getSpanByPathOwnKey(obj, path) == MapGet(obj.registry, buildPath(path))

getSpanByPath(obj, path) ==
    MapGet(obj.registry, buildPath(IF isArrayPath(path) THEN Prev(path) ELSE path))

addSpan(obj, span, info) ==
    [obj EXCEPT !.registry = MapSet(obj.registry, buildPath(info.path), span)]

(***************************************************************************)
(* The tracer (an injected collaborator).  startRootSpan hands out a span  *)
(* with an id no other span has; a span started with a span context       *)
(* continues that context's trace.  end() marks the span ended.            *)
(***************************************************************************)
NoContext == [traceId |-> 0, spanId |-> 0]

\* span.spanContext; undefined when there is no span (parentSpan?.spanContext)
SpanContextOf(spans, id) ==
    IF id = NoSpan THEN NoContext
    ELSE [traceId |-> spans[id].traceId, spanId |-> id]

\* tracer.startRootSpan(traceOptions, fn) before fn runs
NewSpan(id, traceOptions) ==
    [name |-> traceOptions.name,
     kind |-> traceOptions.kind,
     traceId |-> IF traceOptions.spanContext = NoContext
                 THEN id ELSE traceOptions.spanContext.traceId,
     parentSpanId |-> traceOptions.spanContext.spanId,
     links |-> {},
     ended |-> FALSE,
     endCalls |-> 0]

\* span.addLink(traceId, spanId, type)
addLink(span, traceId, spanId, type) ==
    [span EXCEPT !.links = @ \cup {[traceId |-> traceId, spanId |-> spanId, type |-> type]}]

\* (mutant) the span is left open
endSkipped(spans, id) == spans

\* span.end()
end(spans, id) ==
    [spans EXCEPT ![id].ended = TRUE, ![id].endCalls = @ + 1]

\* The tracer's record of started spans, with one more.
Started(spans, id, span) ==
    [i \in DOMAIN spans \cup {id} |-> IF i = id THEN span ELSE spans[i]]

(***************************************************************************)
(* The queries the host resolves (the schema of the integration tests):    *)
(*   object  { a { one two } b { four } }                                  *)
(*   list    { as { one two } }           as returns two elements          *)
(*   nested  { a { three { four } } }     three returns MaxElems elements  *)
(*   arrays  { as { one two } }           as returns the three elements of *)
(*                                        the test's resolver              *)
(*   alias   { a { uno: one two } }       the field one under the alias uno *)
(*   bare    willResolveField({}, {}, {}, {}): an info with no path, no    *)
(*           field name and no field nodes (the unit tests)                *)
(*   named   willResolveField({}, {}, {}, { fieldName: "myField" })        *)
(*   matrix  { f { x } }                  f returns a list of lists of     *)
(*                                        MaxElems objects each            *)
(* Each tree is the sequence of its field nodes in document order.         *)
(***************************************************************************)
Queries == {"object", "list", "nested"}
ArrayQueries == {"arrays", "nested"}
NamingQueries == {"alias", "bare", "named"}
MatrixQueries == {"matrix"}

\* The number of elements the resolver of `as` returns in the tests.
AsElems == 3

ObjectTree ==
    << <<Field("a")>>, <<Field("a"), Field("one")>>, <<Field("a"), Field("two")>>,
       <<Field("b")>>, <<Field("b"), Field("four")>> >>

ListTree ==
    << <<Field("as")>>,
       <<Field("as"), Index(0), Field("one")>>, <<Field("as"), Index(0), Field("two")>>,
       <<Field("as"), Index(1), Field("one")>>, <<Field("as"), Index(1), Field("two")>> >>

NestedTree ==
    << <<Field("a")>>, <<Field("a"), Field("three")>> >> \o
    [j \in 1..MaxElems |-> <<Field("a"), Field("three"), Index(j - 1), Field("four")>>]

ArraysTree ==
    << <<Field("as")>> >> \o
    [j \in 1..(2 * AsElems) |->
       <<Field("as"), Index((j - 1) \div 2), Field(IF (j - 1) % 2 = 0 THEN "one" ELSE "two")>>]

MatrixTree ==
    << <<Field("f")>> >> \o
    [j \in 1..(MaxElems * MaxElems) |->
       <<Field("f"), Index((j - 1) \div MaxElems), Index((j - 1) % MaxElems), Field("x")>>]

\* The response key of an aliased field is its alias.
AliasTree ==
    << <<Field("a")>>, <<Field("a"), Field("uno")>>, <<Field("a"), Field("two")>> >>

\* One call, with an info that has no path.
NoPathTree == << <<>> >>

Tree(q) ==
    CASE q = "object" -> ObjectTree
      [] q = "list" -> ListTree
      [] q = "nested" -> NestedTree
      [] q = "arrays" -> ArraysTree
      [] q = "alias" -> AliasTree
      [] q = "matrix" -> MatrixTree
      [] q = "bare" -> NoPathTree
      [] q = "named" -> NoPathTree

\* A node is its position in the tree of the query.
Nodes(q) == 1..Len(Tree(q))
Path(q, node) == Tree(q)[node]

\* info.fieldNodes[0].alias of a node, "" when absent
AliasOf(q, node) == IF q = "alias" /\ node = 2 THEN "uno" ELSE ""

\* info.fieldName of a node, "" when absent
FieldNameOf(q, node) ==
    IF q = "alias" /\ node = 2 THEN "one"
    ELSE IF q = "bare" THEN ""
    ELSE IF q = "named" THEN "myField"
    ELSE Key(Path(q, node)).str

\* GraphQLResolveInfo of a node: its path, field name and alias.
Info(q, node) ==
    [path |-> Path(q, node), fieldName |-> FieldNameOf(q, node), alias |-> AliasOf(q, node)]

\* The path of the field whose value a path is resolved from (index steps
\* are not fields); the empty path for a top-level field.
RECURSIVE ParentFieldPath(_)
ParentFieldPath(path) ==
    IF Prev(path) = <<>> THEN <<>>
    ELSE IF Key(Prev(path)).type = "number" THEN ParentFieldPath(Prev(path))
    ELSE Prev(path)

\* The parent field of each node, 0 for a top-level field.
ParentFields ==
    [q \in Queries \cup ArrayQueries \cup NamingQueries \cup MatrixQueries |->
       [n \in Nodes(q) |->
          IF ParentFieldPath(Path(q, n)) = <<>> THEN 0
          ELSE CHOOSE m \in Nodes(q) : Path(q, m) = ParentFieldPath(Path(q, n))]]
ParentField(q, node) == ParentFields[q][node]

RootSpanId == 1
\* The id the tracer gives the span of a node.
FieldSpanId(node) == RootSpanId + node

\* (mutant) the alias is not looked at
getFieldNameNoAlias(info) ==
    IF info.fieldName # "" THEN info.fieldName ELSE "field"

getFieldName(info) ==
    IF info.alias # "" THEN info.alias
    ELSE IF info.fieldName # "" THEN info.fieldName
    ELSE "field"

(***************************************************************************)
(* State.                                                                  *)
(*   query        the query the host resolves in this request              *)
(*   requestSpan  this.requestSpan of the extension                        *)
(*   context      the request's context object: a plain object, or one the *)
(*                host passed through addContextHelpers beforehand         *)
(*   spans        every span the tracer started, by id                     *)
(*   request      the requestDidStart call and the closure it returned     *)
(*   fields       per field node: the willResolveField call, info.span and *)
(*                the finish action it returned                            *)
(*   extension    the new ApolloOpencensus(options) call: whether it       *)
(*                returned an object or threw, and the options it kept     *)
(*   helper       the last call host code made to an exported helper       *)
(*                directly (buildPath, addContextHelpers, context.addSpan, *)
(*                context.getSpanByPath): its arguments and its result     *)
(***************************************************************************)
VARIABLES query, requestSpan, context, spans, request, fields, extension, helper

vars == <<query, requestSpan, context, spans, request, fields, extension, helper>>

NotCalled == "notCalled"

\* A hook that was not called.
NoHookCall == [called |-> FALSE, span |-> NoSpan, registered |-> NoSpan, ended |-> FALSE]

Unvisited ==
    [visit |-> "unvisited",      \* unvisited | returned | TypeError | hookRaised
     shouldTrace |-> NotCalled,  \* what shouldTraceFieldResolver returned
     span |-> NoSpan,            \* info.span
     finish |-> NoSpan,          \* the span the returned finish action is bound to
     finishCall |-> NotCalled,   \* notCalled | returned | hookRaised
     onFieldResolve |-> NoHookCall,        \* what the hook was called with: info.span,
                                           \* and the context's entry for info.path
     onFieldResolveFinish |-> NoHookCall]  \* what the hook was called with: the span,
                                           \* and whether it had ended

\* The options of the constructor that decide a predicate: the one given, or
\* alwaysTrue when none is given (lines 107-108).
Constructed(shouldTraceRequest, shouldTraceFieldResolver) ==
    [status |-> "constructed",
     tracer |-> TRUE,
     shouldTraceRequest |-> IF shouldTraceRequest THEN "configured" ELSE "alwaysTrue",
     shouldTraceFieldResolver |-> IF shouldTraceFieldResolver THEN "configured" ELSE "alwaysTrue"]

\* No helper was called directly.
NoHelperCall ==
    [op |-> "none",       \* none | buildPath | addContextHelpers | addSpan | getSpanByPath
     path |-> <<>>,       \* the path argument
     span |-> NoSpan,     \* the span argument of addSpan
     result |-> NoSpan,   \* what getSpanByPath returned
     key |-> "",          \* what buildPath returned
     added |-> <<>>]      \* per path, the span of the last addSpan call with that path

\* The state after new ApolloOpencensus({ tracer, shouldTraceRequest,
\* shouldTraceFieldResolver, ... }), before the first request.
\* The request the host is about to resolve, untouched.
RequestInit(queries) ==
    /\ query \in queries
    /\ requestSpan = NoSpan
    /\ context \in {PlainContext, addContextHelpers(PlainContext)}
    /\ spans = [i \in {} |-> 0]
    /\ request = [call |-> NotCalled,        \* notCalled | returned | extractRaised | hookRaised
                  shouldTrace |-> NotCalled, \* what shouldTraceRequest returned
                  extract |-> NotCalled,     \* notCalled | none | context
                  rootSpan |-> NoSpan,       \* the span the call opened
                  closure |-> NoSpan,        \* the span the returned closure is bound to
                  closureCalls |-> 0]
    /\ fields = [n \in Nodes(query) |-> Unvisited]

ExtensionInit(queries) ==
    /\ extension = Constructed(TRUE, TRUE)
    /\ RequestInit(queries)

InitOf(queries) ==
    /\ ExtensionInit(queries)
    /\ helper = NoHelperCall

Init == InitOf(Queries)

(***************************************************************************)
(* requestDidStart(infos)                                                  *)
(*   should   what shouldTraceRequest(infos) returns                       *)
(*   headers  whether infos.request and its headers are present            *)
(*   extract  what tracer.propagation.extract does: "none" (no context),   *)
(*            "context" (a remote context) or "raises"                     *)
(*   hook     what onRequestResolve does: "returns" or "raises"            *)
(***************************************************************************)
RemoteContext == [traceId |-> 900, spanId |-> 901]

\* lines 141-148: the span context the root span is started with
ExtractedContext(headers, extract) ==
    IF headers /\ extract = "context" THEN RemoteContext ELSE NoContext

\* (mutant) no closure is returned
ClosureSpanNone(rootSpan) == NoSpan

\* lines 163-165: the span the returned closure ends
ClosureSpan(rootSpan) == rootSpan

requestDidStart(should, headers, extract, hook) ==
    /\ extension.status = "constructed"
    /\ extension.shouldTraceRequest = "alwaysTrue" => should
    /\ request.call = NotCalled
    /\ IF ~should
       THEN /\ request' = [request EXCEPT !.call = "returned", !.shouldTrace = "false"]
            /\ UNCHANGED <<requestSpan, spans>>
       ELSE IF headers /\ extract = "raises"
       THEN /\ request' = [request EXCEPT !.call = "extractRaised", !.shouldTrace = "true"]
            /\ UNCHANGED <<requestSpan, spans>>
       ELSE LET traceOptions == [name |-> "request", kind |-> "SERVER",
                                 spanContext |-> ExtractedContext(headers, extract)]
                rootSpan == RootSpanId
            IN /\ spans' = Started(spans, rootSpan, NewSpan(rootSpan, traceOptions))
               /\ IF hook = "raises"
                  THEN /\ request' = [request EXCEPT !.call = "hookRaised",
                                                     !.shouldTrace = "true",
                                                     !.extract = IF headers THEN extract ELSE NotCalled,
                                                     !.rootSpan = rootSpan]
                       /\ UNCHANGED requestSpan
                  ELSE /\ requestSpan' = rootSpan
                       /\ request' = [request EXCEPT !.call = "returned",
                                                     !.shouldTrace = "true",
                                                     !.extract = IF headers THEN extract ELSE NotCalled,
                                                     !.rootSpan = rootSpan,
                                                     !.closure = ClosureSpan(rootSpan)]
    /\ UNCHANGED <<query, context, fields, extension, helper>>

\* The closure requestDidStart returned, () => { rootSpan.end(); }, which the
\* host calls with or without an error (the closure takes no parameter).
finishRequest(error) ==
    /\ request.closure # NoSpan
    /\ request.closureCalls = 0
    /\ spans' = end(spans, request.closure)
    /\ request' = [request EXCEPT !.closureCalls = @ + 1]
    /\ UNCHANGED <<query, requestSpan, context, fields, extension, helper>>

(***************************************************************************)
(* willResolveField(source, args, context, info)                           *)
(*   should  what shouldTraceFieldResolver returns, if it is asked         *)
(*   hook    what onFieldResolve does: "returns" (as does a hook that is   *)
(*           not configured) or "raises"                                   *)
(***************************************************************************)
HookOutcomes == {"returns", "raises"}

\* info.path && info.path.prev
HasPrev(info) == info.path # <<>> /\ Prev(info.path) # <<>>

\* Line 180 calls context.getSpanByPath: a TypeError when the context has no
\* such function.
CallsMissingHelper(reqSpan, should, ctx, info) ==
    /\ reqSpan # NoSpan
    /\ should
    /\ HasPrev(info)
    /\ ~isSpanContext(ctx)

\* (mutant) the parent lookup is not part of the condition
SuppressedIgnoringParent(reqSpan, should, ctx, info) ==
    \/ reqSpan = NoSpan
    \/ ~should

\* (mutant) the request span is not part of the condition
SuppressedIgnoringRequest(reqSpan, should, ctx, info) ==
    \/ ~should
    \/ (HasPrev(info) /\ getSpanByPath(ctx, Prev(info.path)) = NoSpan)

\* The condition of lines 174-181, on a context that has the helpers.
Suppressed(reqSpan, should, ctx, info) ==
    \/ reqSpan = NoSpan
    \/ ~should
    \/ (HasPrev(info) /\ getSpanByPath(ctx, Prev(info.path)) = NoSpan)

\* (mutant) every field span hangs under the request span
parentSpanAlwaysRequest(reqSpan, ctx, info) == reqSpan

\* lines 189-192
parentSpan(reqSpan, ctx, info) ==
    IF HasPrev(info) THEN getSpanByPath(ctx, Prev(info.path)) ELSE reqSpan

\* lines 201-218: the span started for the field, linked to its parent span
FieldSpan(id, name, parent, allSpans) ==
    LET traceOptions == [name |-> name, kind |-> "SERVER",
                         spanContext |-> SpanContextOf(allSpans, parent)]
        span == NewSpan(id, traceOptions)
    IN IF parent # NoSpan
       THEN addLink(span, allSpans[parent].traceId, parent, "CHILD_LINKED_SPAN")
       ELSE span

\* The host resolves a field only from the value its parent field returned.
HostMayVisit(node) ==
    IF ParentField(query, node) = 0 THEN TRUE
    ELSE fields[ParentField(query, node)].visit = "returned"

\* (mutant) the hook runs before lines 220-222
ContextAtHookEntered(entered, registered) == entered

\* line 225: the context onFieldResolve is called with is the one lines
\* 186-222 have written to.
ContextAtHook(entered, registered) == registered

\* One call of willResolveField for a node; id is the id the tracer gives the
\* span if one is started.  The record of the node is that of this call.
resolveField(node, should, hook, id) ==
    /\ extension.status = "constructed"
    /\ extension.shouldTraceFieldResolver = "alwaysTrue" => should
    /\ LET info == Info(query, node)
           asked == IF requestSpan = NoSpan THEN NotCalled
                    ELSE IF should THEN "true" ELSE "false"
       IN IF CallsMissingHelper(requestSpan, should, context, info)
          THEN /\ fields' = [fields EXCEPT ![node] =
                                [Unvisited EXCEPT !.visit = "TypeError", !.shouldTrace = asked]]
               /\ UNCHANGED <<context, spans>>
          ELSE IF Suppressed(requestSpan, should, context, info)
          THEN /\ fields' = [fields EXCEPT ![node] =
                                [Unvisited EXCEPT !.visit = "returned", !.shouldTrace = asked]]
               /\ UNCHANGED <<context, spans>>
          ELSE LET ctx == addContextHelpers(context)
                   name == getFieldName(info)
                   parent == parentSpan(requestSpan, ctx, info)
                   registered == addSpan(ctx, id, info)
                   seen == ContextAtHook(ctx, registered)
               IN /\ spans' = Started(spans, id, FieldSpan(id, name, parent, spans))
                  /\ context' = registered
                  /\ fields' = [fields EXCEPT ![node] =
                        [Unvisited EXCEPT
                           !.visit = IF hook = "raises" THEN "hookRaised" ELSE "returned",
                           !.shouldTrace = asked,
                           !.span = id,
                           !.finish = IF hook = "raises" THEN NoSpan ELSE id,
                           !.onFieldResolve =
                               [called |-> TRUE,
                                span |-> IF seen = registered THEN id ELSE NoSpan,
                                registered |-> MapGet(seen.registry, buildPath(info.path)),
                                ended |-> FALSE]]]
    /\ UNCHANGED <<query, requestSpan, request, extension, helper>>

\* The host visits each field once.
willResolveField(node, should, hook) ==
    /\ fields[node].visit = "unvisited"
    /\ HostMayVisit(node)
    /\ resolveField(node, should, hook, FieldSpanId(node))

(***************************************************************************)
(* The finish action willResolveField returned, called with (error,        *)
(* result).  hook is what onFieldResolveFinish does.                       *)
(***************************************************************************)
\* (mutant) span.end() comes before the hook
SpansAtFinishHookEnded(entered, ended) == ended

\* lines 229-232: onFieldResolveFinish runs before span.end()
SpansAtFinishHook(entered, ended) == entered

finishField(node, hook) ==
    /\ fields[node].finish # NoSpan
    /\ fields[node].finishCall = NotCalled
    /\ LET span == fields[node].finish
           seen == [called |-> TRUE, span |-> span, registered |-> NoSpan,
                    ended |-> SpansAtFinishHook(spans, end(spans, span))[span].ended]
       IN IF hook = "raises"
          THEN /\ fields' = [fields EXCEPT ![node].finishCall = "hookRaised",
                                           ![node].onFieldResolveFinish = seen]
               /\ UNCHANGED spans
          ELSE /\ spans' = end(spans, span)
               /\ fields' = [fields EXCEPT ![node].finishCall = "returned",
                                           ![node].onFieldResolveFinish = seen]
    /\ UNCHANGED <<query, requestSpan, context, request, extension, helper>>

Next ==
    \/ \E should \in BOOLEAN, headers \in BOOLEAN,
          extract \in {"none", "context", "raises"}, hook \in {"returns", "raises"} :
          requestDidStart(should, headers, extract, hook)
    \/ \E error \in BOOLEAN : finishRequest(error)
    \/ \E node \in Nodes(query), should \in BOOLEAN, hook \in HookOutcomes :
          willResolveField(node, should, hook)
    \/ \E node \in Nodes(query), hook \in HookOutcomes : finishField(node, hook)

Spec == Init /\ [][Next]_vars

(***************************************************************************)
(* The extension as the integration tests build it, new ApolloOpencensus(  *)
(* { tracer } ) with no hook configured, resolving the queries with lists. *)
(***************************************************************************)
ArraysInit == InitOf(ArrayQueries)

ArraysNext ==
    \/ \E should \in BOOLEAN, headers \in BOOLEAN, extract \in {"none", "context", "raises"} :
          requestDidStart(should, headers, extract, "returns")
    \/ \E error \in BOOLEAN : finishRequest(error)
    \/ \E node \in Nodes(query), should \in BOOLEAN :
          willResolveField(node, should, "returns")
    \/ \E node \in Nodes(query) : finishField(node, "returns")

ArraysSpec == ArraysInit /\ [][ArraysNext]_vars

\* The same extension resolving the query with a list of lists.
MatrixInit == InitOf(MatrixQueries)

MatrixSpec == MatrixInit /\ [][ArraysNext]_vars

(***************************************************************************)
(* A host that calls willResolveField again for a path whose finish action *)
(* it has called (willResolveField keeps no record of the paths it was     *)
(* called for).  The tracer gives the span of each further visit a new id. *)
(***************************************************************************)
\* The number of spans the further visits of a request start at most.
MaxRevisits == 1

\* The spans further visits have started so far.
RevisitSpans == {id \in DOMAIN spans : id > RootSpanId + Len(Tree(query))}

revisitField(node, should, hook) ==
    /\ fields[node].finishCall # NotCalled
    /\ Cardinality(RevisitSpans) < MaxRevisits
    /\ resolveField(node, should, hook,
                    RootSpanId + Len(Tree(query)) + Cardinality(RevisitSpans) + 1)

RevisitInit == InitOf({"alias", "bare"})

RevisitNext ==
    \/ Next
    \/ \E node \in Nodes(query), should \in BOOLEAN, hook \in HookOutcomes :
          revisitField(node, should, hook)

RevisitSpec == RevisitInit /\ [][RevisitNext]_vars

(***************************************************************************)
(* One extension instance shared by two requests: besides the request      *)
(* whose fields are followed here, another request, with a context object  *)
(* of its own, starts and finishes on the same instance at any moment.     *)
(* The host calls requestDidStart of a request before it visits its fields. *)
(***************************************************************************)
\* The id the tracer gives the root span of the other request.
OtherRootSpanId == 100

\* requestDidStart(infos) of the other request, its onRequestResolve returning
otherRequestDidStart(should, headers, extract) ==
    /\ extension.status = "constructed"
    /\ extension.shouldTraceRequest = "alwaysTrue" => should
    /\ OtherRootSpanId \notin DOMAIN spans
    /\ IF ~should \/ (headers /\ extract = "raises")
       THEN UNCHANGED <<requestSpan, spans>>
       ELSE LET traceOptions == [name |-> "request", kind |-> "SERVER",
                                 spanContext |-> ExtractedContext(headers, extract)]
            IN /\ spans' = Started(spans, OtherRootSpanId,
                                   NewSpan(OtherRootSpanId, traceOptions))
               /\ requestSpan' = OtherRootSpanId
    /\ UNCHANGED <<query, context, request, fields, extension, helper>>

\* The closure the other request's requestDidStart returned.
otherFinishRequest ==
    /\ OtherRootSpanId \in DOMAIN spans
    /\ ~spans[OtherRootSpanId].ended
    /\ spans' = end(spans, OtherRootSpanId)
    /\ UNCHANGED <<query, requestSpan, context, request, fields, extension, helper>>

SharedInit == InitOf({"object"})

SharedNext ==
    \/ \E should \in BOOLEAN, headers \in BOOLEAN,
          extract \in {"none", "context", "raises"}, hook \in HookOutcomes :
          requestDidStart(should, headers, extract, hook)
    \/ \E error \in BOOLEAN : finishRequest(error)
    \/ \E node \in Nodes(query), should \in BOOLEAN, hook \in HookOutcomes :
          request.call # NotCalled /\ willResolveField(node, should, hook)
    \/ \E node \in Nodes(query), hook \in HookOutcomes : finishField(node, hook)
    \/ \E should \in BOOLEAN, headers \in BOOLEAN, extract \in {"none", "context", "raises"} :
          otherRequestDidStart(should, headers, extract)
    \/ otherFinishRequest

SharedSpec == SharedInit /\ [][SharedNext]_vars

(***************************************************************************)
(* new ApolloOpencensus(options) as a step of its own.                     *)
(*   tracer                    whether options.tracer is given             *)
(*   shouldTraceRequest,       whether options gives the predicate (it may *)
(*   shouldTraceFieldResolver  then return anything) or not                *)
(***************************************************************************)
NotConstructed ==
    [status |-> "none", tracer |-> FALSE,
     shouldTraceRequest |-> "none", shouldTraceFieldResolver |-> "none"]

\* (mutant) the tracer is not checked
ConstructionNeverFails(tracer) == FALSE

\* lines 99-103: if (!tracer) throw
ConstructionFails(tracer) == ~tracer

constructor(tracer, shouldTraceRequest, shouldTraceFieldResolver) ==
    /\ extension.status = "none"
    /\ IF ConstructionFails(tracer)
       THEN /\ extension' = [NotConstructed EXCEPT !.status = "threw"]
            /\ UNCHANGED requestSpan
       ELSE /\ extension' = [Constructed(shouldTraceRequest, shouldTraceFieldResolver)
                                EXCEPT !.tracer = tracer]
            /\ requestSpan' = NoSpan
    /\ UNCHANGED <<query, context, spans, request, fields, helper>>

ConstructionInit ==
    /\ extension = NotConstructed
    /\ RequestInit({"object"})
    /\ helper = NoHelperCall

ConstructionNext ==
    \/ \E tracer \in BOOLEAN, shouldTraceRequest \in BOOLEAN,
          shouldTraceFieldResolver \in BOOLEAN :
          constructor(tracer, shouldTraceRequest, shouldTraceFieldResolver)
    \/ Next

ConstructionSpec == ConstructionInit /\ [][ConstructionNext]_vars

(***************************************************************************)
(* The extension visiting an aliased field, and called by the unit tests   *)
(* with an info that has no alias or no field name.                        *)
(***************************************************************************)
NamingInit == InitOf(NamingQueries)

NamingSpec == NamingInit /\ [][Next]_vars

(***************************************************************************)
(* Host code that uses the exported helpers directly, as the unit test     *)
(* "starts the span as a child span of another field" does:                *)
(*   addContextHelpers(ctx); ctx.addSpan(span, { path }); ctx.getSpanByPath *)
(* The paths are those graphql hands out while it resolves the nested      *)
(* query: the path of every field and of every list element on the way.    *)
(***************************************************************************)
\* The number of entries the registry holds at most.
MaxEntries == 3

Prefixes(path) == {SubSeq(path, 1, k) : k \in 1..Len(path)}
RegistryPaths == UNION {Prefixes(NestedTree[n]) : n \in 1..Len(NestedTree)}

\* The spans host code stores.
Handles == 1..2

callAddContextHelpers ==
    /\ context' = addContextHelpers(context)
    /\ helper' = [helper EXCEPT !.op = "addContextHelpers", !.path = <<>>,
                                 !.span = NoSpan, !.result = NoSpan]
    /\ UNCHANGED <<query, requestSpan, spans, request, fields, extension>>

\* context.addSpan(span, { path }), on a context that has the helpers
callAddSpan(span, path) ==
    /\ isSpanContext(context)
    /\ Cardinality(DOMAIN context.registry \cup {buildPath(path)}) <= MaxEntries
    /\ context' = addSpan(context, span, [path |-> path])
    /\ helper' = [helper EXCEPT !.op = "addSpan", !.path = path, !.span = span,
                                 !.result = NoSpan,
                                 !.added = MapSet(helper.added, path, span)]
    /\ UNCHANGED <<query, requestSpan, spans, request, fields, extension>>

\* context.getSpanByPath(path), on a context that has the helpers
callGetSpanByPath(path) ==
    /\ isSpanContext(context)
    /\ helper' = [helper EXCEPT !.op = "getSpanByPath", !.path = path, !.span = NoSpan,
                                 !.result = getSpanByPath(context, path)]
    /\ UNCHANGED <<query, requestSpan, context, spans, request, fields, extension>>

RegistryInit == InitOf({"nested"})

RegistryNext ==
    \/ callAddContextHelpers
    \/ \E span \in Handles, path \in RegistryPaths : callAddSpan(span, path)
    \/ \E path \in RegistryPaths : callGetSpanByPath(path)

RegistrySpec == RegistryInit /\ [][RegistryNext]_vars

(***************************************************************************)
(* buildPath called on its own, with every chain of at most MaxDepth steps *)
(* whose keys are field names, list indices or absent, and with the chain  *)
(* a -> three -> 1 -> four.                                                *)
(***************************************************************************)
MaxDepth == 3

PathKeys == {Field("a"), Field("three"), Field("four"), Index(0), Index(1), Undefined}

RECURSIVE ChainsOfLen(_)
ChainsOfLen(d) ==
    IF d = 0 THEN {<<>>}
    ELSE {Append(chain, key) : chain \in ChainsOfLen(d - 1), key \in PathKeys}

ExampleChain == <<Field("a"), Field("three"), Index(1), Field("four")>>

Chains == UNION {ChainsOfLen(d) : d \in 0..MaxDepth} \cup {ExampleChain}

PathInit ==
    /\ ExtensionInit({"object"})
    /\ context = PlainContext
    /\ \E chain \in Chains : helper = [NoHelperCall EXCEPT !.path = chain]

callBuildPath ==
    /\ helper.op = "none"
    /\ helper' = [helper EXCEPT !.op = "buildPath", !.key = buildPath(helper.path)]
    /\ UNCHANGED <<query, requestSpan, context, spans, request, fields, extension>>

PathNext == callBuildPath

PathSpec == PathInit /\ [][PathNext]_vars

(***************************************************************************)
(* Vocabulary of the properties.                                           *)
(***************************************************************************)
Opened == DOMAIN spans

\* Some user hook raised during the request.
HookRaised ==
    \/ request.call = "hookRaised"
    \/ \E n \in Nodes(query) :
          fields[n].visit = "hookRaised" \/ fields[n].finishCall = "hookRaised"

\* The host holds a finish action (or the request closure) bound to span id,
\* and whether it has invoked it.
FinishHandedOut(id) ==
    IF id = request.rootSpan THEN request.closure = id
    ELSE \E n \in Nodes(query) : fields[n].finish = id
FinishInvoked(id) ==
    IF id = request.rootSpan THEN request.closure = id /\ request.closureCalls = 1
    ELSE \E n \in Nodes(query) : fields[n].finish = id /\ fields[n].finishCall # NotCalled

\* path p is a proper ancestor of path q
IsAncestor(p, q) == Len(p) < Len(q) /\ SubSeq(q, 1, Len(p)) = p

AllVisited == \A n \in Nodes(query) : fields[n].visit # "unvisited"

\* The host calls what it was handed: the request closure and every finish
\* action are eventually invoked.
AllNodes == UNION {Nodes(q) : q \in Queries}
FairSpec ==
    /\ Spec
    /\ WF_vars(\E error \in BOOLEAN : finishRequest(error))
    /\ \A node \in AllNodes :
          WF_vars(node \in Nodes(query) /\ \E hook \in HookOutcomes : finishField(node, hook))

\* C1: unless a hook raises, every span that was opened (the root span and
\* each field span) is eventually ended by exactly one call of end(); and no
\* span is ever ended by more than one call of end(), or ended before its
\* finish action (or the request closure) was invoked.
C1_EverySpanEndedExactlyOnce ==
    /\ [](\A id \in Opened :
             /\ spans[id].endCalls <= 1
             /\ spans[id].ended <=> spans[id].endCalls = 1
             /\ spans[id].ended => FinishInvoked(id))
    /\ \A id \in {RootSpanId} \cup {FieldSpanId(n) : n \in AllNodes} :
          (id \in Opened) ~>
              (HookRaised \/ (id \in Opened /\ spans[id].ended /\ spans[id].endCalls = 1))

\* C1 witness: a whole tree with a list was traced, every finish action and the
\* request closure were invoked, and all the spans are ended.
C1_Witness ==
    /\ query = "nested"
    /\ ~HookRaised
    /\ Cardinality(Opened) = 1 + Len(Tree(query))
    /\ \A id \in Opened : FinishInvoked(id) /\ spans[id].ended

\* C2: once the finish action of a field has run, whether its
\* onFieldResolveFinish hook returned or raised, the span bound to it is ended.
C2_FinishActionAlwaysEndsSpan ==
    \A n \in Nodes(query) :
        fields[n].finishCall # NotCalled => spans[fields[n].finish].ended

\* C3: below a node for which shouldTraceFieldResolver returned false, no
\* visited descendant has a span, a finish action or a registry entry.
C3_SuppressionPropagates ==
    \A n \in Nodes(query) : \A m \in Nodes(query) :
        (/\ fields[n].shouldTrace = "false"
         /\ IsAncestor(Path(query, n), Path(query, m))
         /\ fields[m].visit # "unvisited")
        => /\ fields[m].span = NoSpan
           /\ fields[m].finish = NoSpan
           /\ FieldSpanId(m) \notin Opened
           /\ buildPath(Path(query, m)) \notin DOMAIN context.registry

\* C3 witness: a field is suppressed, a descendant of it below a list element
\* was visited with the predicate returning true, and it got no span.
C3_Witness ==
    \E n \in Nodes(query) : \E m \in Nodes(query) :
        /\ fields[n].shouldTrace = "false"
        /\ IsAncestor(Path(query, n), Path(query, m))
        /\ isArrayPath(Prev(Path(query, m)))
        /\ fields[m].visit = "returned"
        /\ fields[m].shouldTrace = "true"
        /\ fields[m].span = NoSpan

\* C4: a visited node whose parent step has no registered span was visited
\* without an error, and has no span and no finish action.
C4_MissingParentIsNotAnError ==
    \A n \in Nodes(query) :
        (/\ fields[n].visit # "unvisited"
         /\ HasPrev(Info(query, n))
         /\ MapGet(context.registry,
                   buildPath(ParentFieldPath(Path(query, n)))) = NoSpan)
        => /\ fields[n].visit = "returned"
           /\ fields[n].span = NoSpan
           /\ fields[n].finish = NoSpan

\* C5: when shouldTraceRequest returned false, requestDidStart opened no root
\* span and returned no closure, and no span at all exists for the request,
\* whatever was visited afterwards.
C5_RootSuppressionIsTotal ==
    request.shouldTrace = "false" =>
        /\ request.rootSpan = NoSpan
        /\ request.closure = NoSpan
        /\ requestSpan = NoSpan
        /\ Opened = {}
        /\ \A n \in Nodes(query) : fields[n].span = NoSpan /\ fields[n].finish = NoSpan

\* C5 witness: the request is untraced and the whole tree was visited after
\* requestDidStart returned (no field was visited before it).
C5_Witness ==
    /\ request.shouldTrace = "false"
    /\ AllVisited
    /\ \A n \in Nodes(query) : fields[n].visit = "returned"
    /\ query = "object"

\* The span a field span is linked to.
LinkedParent(id) == (CHOOSE l \in spans[id].links : TRUE).spanId

\* The span reached from id by following the parent links.
RECURSIVE LinkRoot(_)
LinkRoot(id) == IF spans[id].links = {} THEN id ELSE LinkRoot(LinkedParent(id))

\* The span the position of a node asks for as parent: the request root span
\* for a top-level field, the span of the parent field otherwise.
PositionParent(n) ==
    IF ParentField(query, n) = 0 THEN request.rootSpan
    ELSE fields[ParentField(query, n)].span

\* C6: every field span carries exactly one link, a CHILD_LINKED_SPAN link
\* with the trace id and id of its parent span, and continues the parent's
\* span context; the parent is the request root span for a top-level node and
\* otherwise the span getSpanByPath returns for the node's parent step, which
\* is the span of the parent field; following the links from any field span
\* ends at the request root span.
C6_ParentLinksFormTree ==
    \A n \in Nodes(query) :
        fields[n].span # NoSpan =>
            LET id == fields[n].span
                p == PositionParent(n)
            IN /\ id \in Opened /\ p \in Opened /\ p # id
               /\ p = IF HasPrev(Info(query, n))
                      THEN getSpanByPath(context, Prev(Path(query, n)))
                      ELSE requestSpan
               /\ spans[id].links =
                     {[traceId |-> spans[p].traceId, spanId |-> p,
                       type |-> "CHILD_LINKED_SPAN"]}
               /\ spans[id].traceId = spans[p].traceId
               /\ spans[id].parentSpanId = p
               /\ LinkRoot(id) = request.rootSpan
               /\ spans[request.rootSpan].links = {}

\* C6 witness: a field two levels down, below a list element, has a span linked
\* to the span of the list field, which is linked to a top-level field's span.
C6_Witness ==
    \E n \in Nodes(query) :
        /\ fields[n].span # NoSpan
        /\ HasPrev(Info(query, n))
        /\ isArrayPath(Prev(Path(query, n)))
        /\ LinkedParent(fields[n].span) = fields[ParentField(query, n)].span
        /\ LinkedParent(LinkedParent(fields[n].span)) # request.rootSpan
        /\ LinkRoot(fields[n].span) = request.rootSpan

\* The field nodes resolved on an element of a list.
ElementFields ==
    {n \in Nodes(query) :
        HasPrev(Info(query, n)) /\ Key(Prev(Path(query, n))).type = "number"}

\* C7: when a query with a list field is traced and every node was visited
\* with the predicate returning true, the spans are the root span, one per
\* field above the elements and one per element and requested sub-field:
\* 1 + 1 + 3 * 2 = 8 for { as { one two } } with three elements, and
\* 1 + 2 + MaxElems * 1 for { a { three { four } } }.  Every sub-field of an
\* element has a span of its own, registered under its own key, whose parent
\* is the span registered under the key of the list field, and no span is
\* registered under the key of the element.
C7_ArrayElementsHangUnderListField ==
    /\ (\A n \in Nodes(query) : fields[n].shouldTrace = "true")
       => /\ Cardinality(Opened) = IF query = "arrays" THEN 1 + 1 + AsElems * 2
                                   ELSE 1 + 2 + MaxElems * 1
          /\ \A n \in Nodes(query) : fields[n].span # NoSpan
    /\ \A n \in ElementFields :
          fields[n].span # NoSpan =>
              LET path == Path(query, n)
                  list == ParentFieldPath(path)
              IN /\ \A m \in Nodes(query) : m # n => fields[m].span # fields[n].span
                 /\ MapGet(context.registry, buildPath(path)) = fields[n].span
                 /\ LinkedParent(fields[n].span) = MapGet(context.registry, buildPath(list))
                 /\ LinkedParent(fields[n].span) = fields[ParentField(query, n)].span
                 /\ buildPath(Prev(path)) \notin DOMAIN context.registry

\* C7 witness: the query of the arrays test fully traced: eight spans, six of
\* them for the sub-fields of the three elements.
C7_Witness ==
    /\ query = "arrays"
    /\ \A n \in Nodes(query) : fields[n].shouldTrace = "true" /\ fields[n].span # NoSpan
    /\ Cardinality(Opened) = 8
    /\ Cardinality({fields[n].span : n \in ElementFields}) = 6

\* C8: after a requestDidStart that returned with shouldTraceRequest true,
\* exactly one span named "request" exists, it is the request span and the
\* span the returned closure is bound to; it is open until the closure is
\* called and ended, by one end(), once it was; and the closure ends no other
\* span (a field span is ended only if its own finish action returned).
C8_RequestClosureEndsRootSpan ==
    (request.shouldTrace = "true" /\ request.call = "returned") =>
        /\ request.rootSpan \in Opened
        /\ {id \in Opened : spans[id].name = "request"} = {request.rootSpan}
        /\ requestSpan = request.rootSpan
        /\ request.closure = request.rootSpan
        /\ request.closureCalls = 0 =>
              ~spans[request.rootSpan].ended /\ spans[request.rootSpan].endCalls = 0
        /\ request.closureCalls = 1 =>
              spans[request.rootSpan].ended /\ spans[request.rootSpan].endCalls = 1
        /\ \A n \in Nodes(query) :
              (fields[n].span # NoSpan /\ spans[fields[n].span].ended)
              => fields[n].finishCall = "returned"

\* C8 witness: the closure was called while a field span is still open, and
\* only the root span is ended.
C8_Witness ==
    /\ request.shouldTrace = "true"
    /\ request.closureCalls = 1
    /\ spans[request.rootSpan].ended
    /\ \E n \in Nodes(query) : fields[n].span # NoSpan /\ ~spans[fields[n].span].ended

\* C9: after onRequestResolve or onFieldResolve raised, the span opened just
\* before the hook ran is ended, or the host holds a finish action bound to it.
C9_HookExceptionDoesNotLeakSpan ==
    /\ request.call = "hookRaised" =>
          spans[request.rootSpan].ended \/ request.closure = request.rootSpan
    /\ \A n \in Nodes(query) :
          fields[n].visit = "hookRaised" =>
              spans[fields[n].span].ended \/ fields[n].finish = fields[n].span

\* C10: with shouldTraceRequest true (and onRequestResolve not raising),
\* requestDidStart opened the root span and returned its closure whether the
\* request had no headers, the extractor returned nothing, returned a
\* context or raised; the root continues the extracted context when there is
\* one and is a fresh root otherwise.
C10_ExtractionIsBestEffort ==
    (request.shouldTrace = "true" /\ request.call # "hookRaised") =>
        /\ request.rootSpan \in Opened
        /\ request.closure = request.rootSpan
        /\ IF request.extract = "context"
           THEN /\ spans[request.rootSpan].traceId = RemoteContext.traceId
                /\ spans[request.rootSpan].parentSpanId = RemoteContext.spanId
           ELSE /\ spans[request.rootSpan].traceId = request.rootSpan
                /\ spans[request.rootSpan].parentSpanId = NoContext.spanId

\* C11 (as stated): for every path, with a field name or a list index as its
\* last step, getSpanByPath(path) returns the span of the last
\* addSpan(span, { path }) call.
C11_RoundTripForEveryNode ==
    (helper.op = "getSpanByPath" /\ helper.path \in DOMAIN helper.added)
    => helper.result = helper.added[helper.path]

\* C11 (amended): for every path whose last step is a field name,
\* getSpanByPath(path) returns the span of the last addSpan(span, { path })
\* call.
C11_RoundTripForNamedNode ==
    (/\ helper.op = "getSpanByPath"
     /\ helper.path \in DOMAIN helper.added
     /\ Key(helper.path).type = "string")
    => helper.result = helper.added[helper.path]

\* C11 witness: a span was stored for a field path, another span for another
\* path after it, and getSpanByPath of the first path returns the first span.
C11_Witness ==
    /\ helper.op = "getSpanByPath"
    /\ Key(helper.path).type = "string"
    /\ helper.path \in DOMAIN helper.added
    /\ helper.result = helper.added[helper.path]
    /\ \E other \in DOMAIN helper.added :
          other # helper.path /\ helper.added[other] # helper.result

\* C12: a getSpanByPath(path) call returns the registry entry under the key of
\* path.prev when the last step of path is a list index, and the entry under
\* the key of path otherwise; it returns undefined when the registry has no
\* entry under that key; and it leaves the context and its registry as they
\* were.
C12_LookupKeyAndNoWrite ==
    [][\A path \in RegistryPaths :
          callGetSpanByPath(path) =>
              LET key == IF Key(path).type = "number"
                         THEN buildPath(Prev(path)) ELSE buildPath(path)
              IN /\ context' = context
                 /\ key \in DOMAIN context.registry
                       => helper'.result = context.registry[key]
                 /\ key \notin DOMAIN context.registry
                       => helper'.result = NoSpan]_vars

\* C12 witness: getSpanByPath of a list element returned the span stored for
\* the list field, while another span is stored under the element's own key.
C12_Witness ==
    /\ helper.op = "getSpanByPath"
    /\ Key(helper.path).type = "number"
    /\ helper.result # NoSpan
    /\ helper.result = MapGet(context.registry, buildPath(Prev(helper.path)))
    /\ buildPath(helper.path) \in DOMAIN context.registry
    /\ context.registry[buildPath(helper.path)] # helper.result

\* C13: addContextHelpers on a context that already has the helpers returns
\* the context as it is, registry included; so across the attachments that the
\* traced field visits make (one each), no registry entry is lost or changed,
\* and the span of every traced field is still what getSpanByPath returns for
\* its path.
C13_AttachmentIsIdempotent ==
    /\ [](isSpanContext(context) => addContextHelpers(context) = context)
    /\ [](\A n \in Nodes(query) :
             fields[n].span # NoSpan =>
                 /\ isSpanContext(context)
                 /\ getSpanByPath(context, Path(query, n)) = fields[n].span)
    /\ [][isSpanContext(context) =>
             /\ isSpanContext(context')
             /\ \A k \in DOMAIN context.registry :
                   /\ k \in DOMAIN context'.registry
                   /\ context'.registry[k] = context.registry[k]]_vars

\* C13 witness: every field of { a { one two } b { four } } was traced, five
\* visits each attaching the helpers, and the span of the first is still
\* returned for its path.
C13_Witness ==
    /\ query = "object"
    /\ \A n \in Nodes(query) : fields[n].span # NoSpan
    /\ Cardinality(DOMAIN context.registry) = Len(Tree(query))
    /\ getSpanByPath(context, Path(query, 1)) = fields[1].span

\* The chains whose keys are all field names or list indices.
KeyedChains == {chain \in Chains : \A i \in 1..Len(chain) : chain[i].type # "undefined"}

\* The rendering the format asks for: named segments joined with ".", a
\* bracketed index appended to what precedes it with no "." before "[".
RECURSIVE BracketAppended(_)
BracketAppended(path) ==
    IF path = <<>> THEN ""
    ELSE IF Key(path).type = "number"
         THEN BracketAppended(Prev(path)) \o "[" \o ToString(Key(path).num) \o "]"
    ELSE IF Prev(path) = <<>> THEN Key(path).str
    ELSE BracketAppended(Prev(path)) \o "." \o Key(path).str

\* C14: buildPath renders a chain root to leaf, the named segments joined with
\* "." and each bracketed index appended directly to the preceding segment;
\* the chain a -> three -> 1 -> four gives "a.three[1].four".
C14_PathKeyFormat ==
    (helper.op = "buildPath" /\ helper.path \in KeyedChains) =>
        /\ helper.key = BracketAppended(helper.path)
        /\ helper.path = ExampleChain => helper.key = "a.three[1].four"

\* The path key of every chain.
KeyOf == [chain \in Chains |-> buildPath(chain)]

\* C15: over chains of field names and list indices, two chains have the same
\* path key exactly when they have the same sequence of keys.
C15_PathKeysIdentifyPositions ==
    (helper.op = "buildPath" /\ helper.path \in KeyedChains) =>
        \A other \in KeyedChains :
            (KeyOf[other] = helper.key) <=> (other = helper.path)

\* C15 witness: the key of a.three[1] was built, and it differs from the key
\* of its sibling a.three[0] and from the key of its parent a.three.
C15_Witness ==
    /\ helper.op = "buildPath"
    /\ helper.path = <<Field("a"), Field("three"), Index(1)>>
    /\ KeyOf[<<Field("a"), Field("three"), Index(0)>>] # helper.key
    /\ KeyOf[<<Field("a"), Field("three")>>] # helper.key

\* The chain without the steps whose key is absent.
Defined(path) == SelectSeq(path, LAMBDA key : key.type # "undefined")

\* C16: buildPath of the absent path is the empty string, and the path key of
\* a chain with steps whose key is absent is the path key of the chain
\* without those steps.
C16_PathKeySkipsAbsentKeys ==
    helper.op = "buildPath" =>
        /\ helper.path = <<>> => helper.key = ""
        /\ helper.key = KeyOf[Defined(helper.path)]

\* The names the spans of each naming case must carry.
ExpectedNames ==
    [alias |-> <<"a", "uno", "two">>, bare |-> <<"field">>, named |-> <<"myField">>]

\* C17: the name of every field span is the alias of the node when it has
\* one, otherwise its field name when that is not empty, otherwise "field":
\* a / uno / two for { a { uno: one two } }, "field" for an info with neither,
\* "myField" for an info with that field name.
C17_SpanNaming ==
    \A n \in Nodes(query) :
        fields[n].span # NoSpan =>
            LET info == Info(query, n)
                name == spans[fields[n].span].name
            IN /\ info.alias # "" => name = info.alias
               /\ (info.alias = "" /\ info.fieldName # "") => name = info.fieldName
               /\ (info.alias = "" /\ info.fieldName = "") => name = "field"
               /\ name = ExpectedNames[query][n]

\* C17 witness: the field one, queried as uno, has a span named uno.
C17_Witness ==
    /\ query = "alias"
    /\ fields[2].span # NoSpan
    /\ Info(query, 2).fieldName = "one"
    /\ spans[fields[2].span].name = "uno"

\* C18: a construction without a tracer throws, and nothing can be done with
\* what it leaves (no request starts, no field is visited, no span exists); a
\* construction with a tracer returns an extension whose request span is
\* empty until a request starts, and a predicate the options did not give
\* never returns false.
C18_ConstructionNeedsTracer ==
    /\ (extension.status # "none" /\ ~extension.tracer) => extension.status = "threw"
    /\ extension.status = "threw" =>
          /\ requestSpan = NoSpan
          /\ request.call = NotCalled
          /\ \A n \in Nodes(query) : fields[n].visit = "unvisited"
          /\ Opened = {}
    /\ extension.status = "constructed" =>
          /\ extension.tracer
          /\ request.call = NotCalled => requestSpan = NoSpan
          /\ extension.shouldTraceRequest = "alwaysTrue" => request.shouldTrace # "false"
          /\ extension.shouldTraceFieldResolver = "alwaysTrue" =>
                \A n \in Nodes(query) : fields[n].shouldTrace # "false"

\* C18 witness: new ApolloOpencensus() without a tracer has thrown.
C18_Witness ==
    /\ extension.status = "threw"
    /\ ~extension.tracer
    /\ ~ENABLED Next

\* C19: the request span is set only by a requestDidStart that returned with
\* shouldTraceRequest true, and it is then the root span that call opened; a
\* willResolveField call made while the request span is empty opens no span
\* and returns no finish action; so whenever a field span exists, the root
\* span exists and is the request span.
C19_RootFirst ==
    /\ [](requestSpan # NoSpan =>
             /\ request.call = "returned"
             /\ request.shouldTrace = "true"
             /\ requestSpan = request.rootSpan
             /\ requestSpan \in Opened)
    /\ [][\A n \in Nodes(query) :
             (/\ requestSpan = NoSpan
              /\ fields[n].visit = "unvisited"
              /\ fields'[n].visit # "unvisited")
             => /\ fields'[n].span = NoSpan
                /\ fields'[n].finish = NoSpan
                /\ spans' = spans]_vars
    /\ []((\E n \in Nodes(query) : fields[n].span # NoSpan \/ FieldSpanId(n) \in Opened)
             => (requestSpan # NoSpan /\ RootSpanId \in Opened))

\* C19 witness: a field was visited before the request started and got no
\* span, and a field visited after the request started has one.
C19_Witness ==
    \E n \in Nodes(query) : \E m \in Nodes(query) :
        /\ fields[n].visit = "returned"
        /\ fields[n].shouldTrace = NotCalled
        /\ fields[n].span = NoSpan
        /\ fields[m].span # NoSpan
        /\ requestSpan # NoSpan

\* C20: no willResolveField call opens a span whose parent span (the span of
\* the parent field, or the request span for a top-level field) is already
\* ended, also when the host called the parent's finish action, or the
\* request closure, before the visit.
C20_NoSpanUnderClosedParent ==
    [][\A n \in Nodes(query) :
          (fields[n].span = NoSpan /\ fields'[n].span # NoSpan)
          => ~spans[PositionParent(n)].ended]_vars

\* C21: a willResolveField call made while the request span is empty, or for
\* which shouldTraceFieldResolver returns false, or whose parent field has no
\* registry entry, starts no span, leaves the context and its registry as
\* they were, sets no info.span, returns no finish action and does not call
\* onFieldResolve; and a visited node without a span never gets one later.
C21_UntracedVisitChangesNothing ==
    /\ [][\A n \in Nodes(query) :
             (/\ fields[n].visit = "unvisited"
              /\ fields'[n].visit # "unvisited"
              /\ \/ requestSpan = NoSpan
                 \/ fields'[n].shouldTrace = "false"
                 \/ /\ HasPrev(Info(query, n))
                    /\ MapGet(context.registry,
                              buildPath(ParentFieldPath(Path(query, n)))) = NoSpan)
             => /\ spans' = spans
                /\ context' = context
                /\ fields'[n].span = NoSpan
                /\ fields'[n].finish = NoSpan
                /\ ~fields'[n].onFieldResolve.called]_vars
    /\ [][\A n \in Nodes(query) :
             (fields[n].visit # "unvisited" /\ fields[n].span = NoSpan)
             => /\ fields'[n] = fields[n]
                /\ FieldSpanId(n) \notin DOMAIN spans']_vars

\* C21 witness: a field was visited with the predicate returning false and
\* has nothing, next to a sibling that was traced and finished.
C21_Witness ==
    \E n \in Nodes(query) : \E m \in Nodes(query) :
        /\ fields[n].visit = "returned"
        /\ fields[n].shouldTrace = "false"
        /\ fields[n].span = NoSpan
        /\ n # m
        /\ ParentField(query, n) = ParentField(query, m)
        /\ fields[m].finishCall = "returned"

\* C22: onFieldResolve is called exactly in the visits that start a span,
\* and when it is called the span is already info.span and already stored in
\* the registry under the path key of the node.
C22_RegisteredBeforeNotified ==
    \A n \in Nodes(query) :
        /\ fields[n].onFieldResolve.called <=> fields[n].span # NoSpan
        /\ fields[n].onFieldResolve.called =>
              /\ fields[n].onFieldResolve.span = fields[n].span
              /\ fields[n].onFieldResolve.registered = fields[n].span
              /\ MapGet(context.registry, buildPath(Path(query, n))) = fields[n].span

\* C22 witness: onFieldResolve raised for a field of a list element, having
\* seen the span of that field on the info and in the registry.
C22_Witness ==
    \E n \in ElementFields :
        /\ fields[n].visit = "hookRaised"
        /\ fields[n].onFieldResolve.called
        /\ fields[n].onFieldResolve.registered = FieldSpanId(n)
        /\ fields[n].onFieldResolve.span = FieldSpanId(n)

\* C23: onFieldResolveFinish is called exactly when the finish action runs,
\* with the span the same visit opened, and that span has not ended when the
\* hook is called; a field span is ended only after the hook was called.
C23_FinishHookBeforeEnd ==
    \A n \in Nodes(query) :
        /\ fields[n].onFieldResolveFinish.called <=> fields[n].finishCall # NotCalled
        /\ fields[n].onFieldResolveFinish.called =>
              /\ fields[n].onFieldResolveFinish.span = fields[n].span
              /\ fields[n].span # NoSpan
              /\ ~fields[n].onFieldResolveFinish.ended
        /\ (fields[n].span # NoSpan /\ spans[fields[n].span].ended) =>
              fields[n].onFieldResolveFinish.called

\* C23 witness: a finish action returned: its hook saw the span open, and the
\* span is ended now.
C23_Witness ==
    \E n \in Nodes(query) :
        /\ fields[n].finishCall = "returned"
        /\ fields[n].onFieldResolveFinish.called
        /\ ~fields[n].onFieldResolveFinish.ended
        /\ spans[fields[n].onFieldResolveFinish.span].ended

\* The state of a node: unvisited; untraced when it was visited and the
\* registry has no span for its path; active while that span is open;
\* finished once it is ended.
NodeState(n, allFields, ctx, allSpans) ==
    LET entry == MapGet(ctx.registry, buildPath(Path(query, n)))
    IN IF allFields[n].visit = "unvisited" THEN "unvisited"
       ELSE IF entry = NoSpan THEN "untraced"
       ELSE IF allSpans[entry].ended THEN "finished"
       ELSE "active"

\* C24: a node changes state only from unvisited to untraced, from unvisited
\* to active and from active to finished; in particular no step, a further
\* visit of its path included, takes a finished node back to active.
C24_NodeStateMachine ==
    [][\A n \in Nodes(query) :
          LET was == NodeState(n, fields, context, spans)
              is == NodeState(n, fields', context', spans')
          IN \/ was = is
             \/ <<was, is>> \in {<<"unvisited", "untraced">>, <<"unvisited", "active">>,
                                  <<"active", "finished">>}]_vars

\* C25: no step (visit, further visit, finish action, request closure)
\* removes a key from the registry; a finish action and the request closure
\* leave the whole context as it is; and the entry of a key changes only when
\* the node of that key is visited again and traced, to the span of that
\* visit, the entries of all other keys staying as they are.
C25_RegistryOnlyGrows ==
    [][/\ \A k \in DOMAIN context.registry :
             /\ k \in DOMAIN context'.registry
             /\ context'.registry[k] # context.registry[k] =>
                   \E n \in Nodes(query) :
                       /\ buildPath(Path(query, n)) = k
                       /\ fields'[n].span = context'.registry[k]
                       /\ fields'[n].span \notin DOMAIN spans
                       /\ \A other \in DOMAIN context.registry \ {k} :
                             context'.registry[other] = context.registry[other]
       /\ (\E n \in Nodes(query) : fields'[n].finishCall # fields[n].finishCall
                                     /\ fields'[n].finishCall # NotCalled)
             => context' = context
       /\ request' # request => context' = context]_vars

\* C25 witness: a field was traced a second time: its key holds the span of
\* the second visit, the first span is ended, and the entry of another field
\* is still the one its visit stored.
C25_Witness ==
    \E n \in Nodes(query) : \E m \in Nodes(query) :
        /\ n # m
        /\ FieldSpanId(n) \in DOMAIN spans
        /\ spans[FieldSpanId(n)].ended
        /\ MapGet(context.registry, buildPath(Path(query, n))) \in RevisitSpans
        /\ MapGet(context.registry, buildPath(Path(query, m))) = FieldSpanId(m)

\* Two different nodes resolved from the value of the same parent field
\* (the fields of one object, or of the elements of one list).
Siblings(n, m) == n # m /\ ParentField(query, n) = ParentField(query, m)

\* C26: in every interleaving of the visits and finish actions of siblings,
\* the siblings have different path keys, the span of each traced sibling is
\* and stays stored under its own key, and a finish action changes no span
\* but its own (which is ended when the action returns) and leaves the
\* context and its registry as they were.
C26_SiblingInterleavingHarmless ==
    /\ [](\A n \in Nodes(query) : \A m \in Nodes(query) :
             Siblings(n, m) =>
                 /\ buildPath(Path(query, n)) # buildPath(Path(query, m))
                 /\ fields[n].span # NoSpan =>
                       /\ fields[n].span # fields[m].span
                       /\ MapGet(context.registry, buildPath(Path(query, n))) = fields[n].span)
    /\ [][\A n \in Nodes(query) :
             (fields[n].finishCall = NotCalled /\ fields'[n].finishCall # NotCalled)
             => /\ context' = context
                /\ DOMAIN spans' = DOMAIN spans
                /\ \A id \in DOMAIN spans \ {fields[n].finish} : spans'[id] = spans[id]
                /\ fields'[n].finishCall = "returned" => spans'[fields[n].finish].ended
                /\ \A m \in Nodes(query) \ {n} : fields'[m] = fields[m]]_vars

\* C26 witness: two fields of elements of the same list are traced; the one
\* later in the document was finished first, and the other is still open
\* and still stored under its key.
C26_Witness ==
    \E n \in ElementFields : \E m \in ElementFields :
        /\ Siblings(n, m)
        /\ m < n
        /\ fields[n].finishCall = "returned"
        /\ spans[fields[n].span].ended
        /\ fields[m].span # NoSpan
        /\ fields[m].finishCall = NotCalled
        /\ ~spans[fields[m].span].ended
        /\ MapGet(context.registry, buildPath(Path(query, m))) = fields[m].span

\* C27: on an instance that serves another request too, every top-level
\* field span of the request is linked to the root span that the request's
\* own requestDidStart opened, and a request whose shouldTraceRequest returned
\* false has no field span.
C27_RequestIsolation ==
    /\ \A n \in Nodes(query) :
          (ParentField(query, n) = 0 /\ fields[n].span # NoSpan) =>
              /\ request.rootSpan # NoSpan
              /\ spans[fields[n].span].links =
                    {[traceId |-> spans[request.rootSpan].traceId,
                      spanId |-> request.rootSpan, type |-> "CHILD_LINKED_SPAN"]}
    /\ request.shouldTrace = "false" =>
          \A n \in Nodes(query) : fields[n].span = NoSpan

\* C28: in a traced request where shouldTraceFieldResolver returned true for
\* every visited field, each visited field has a span, whatever the shape of
\* the tree, a field under a list nested in a list (f[i][j].x) included.
C28_TracingIsComplete ==
    (/\ request.rootSpan # NoSpan
     /\ requestSpan = request.rootSpan
     /\ \A n \in Nodes(query) :
           fields[n].visit # "unvisited" => fields[n].shouldTrace = "true") =>
        \A n \in Nodes(query) :
           fields[n].visit # "unvisited" => fields[n].span # NoSpan

====
